---- MODULE Spec2Model ----
(***************************************************************************)
(* MapMap tile proxy: the tile route, the bounds route and the cache clear *)
(* route of app.py over the per-endpoint CoordinateTransformer registry,   *)
(* the WMTS capabilities fetch, the CRS lookup, the upstream GetTile call   *)
(* and the TTL tile cache.                                                 *)
(*                                                                         *)
(* Requests run as asyncio coroutines: a request runs atomically from one  *)
(* network await to the next, so there is one action per resumption.       *)
(*                                                                         *)
(* Strings that the code splits on ":" are sequences of their ":"-separated *)
(* tokens: "EPSG:3857:10" is <<"EPSG", "3857", "10">>.                      *)
(*                                                                         *)
(* Lengths are fixed-point integers in a unit per target CRS:              *)
(*   EPSG:3059 (LKS_LVM)  7 mm, 1/40 of the 0.28 mm pixel of WMTS scales   *)
(*   EPSG:3857            1/2^27 of the Web-Mercator world width           *)
(***************************************************************************)
EXTENDS Integers, Sequences, FiniteSets, TLC

VARIABLES
    tile_cache,          \* app.tile_cache: live entries <<key, data>>, oldest first
    transformers,        \* app.transformers: endpoint name -> id of its object
    clients,             \* app.clients: endpoint names that have a WMTSClient
    objs,                \* the CoordinateTransformer objects still referenced, by id
    capabilities_cache,  \* wmts_capabilities._capabilities_cache
    crs_cache,           \* crs_fetcher._crs_cache: EPSG code -> 0 absent, 1 info, 2 info and proj4
    req,                 \* the requests in flight and the one just answered, by slot
    just_cleared,        \* the last step was a clear_cache call
    started,             \* number of requests started so far
    probe                \* a call of one function on its own: its arguments and its result

vars == <<tile_cache, transformers, clients, objs, capabilities_cache,
          crs_cache, req, just_cleared, started, probe>>

----------------------------------------------------------------------------
(* Bounds of the model *)

MaxRequests == 2

Slots == {1, 2}

\* Python's None: None for an absent string or number, Null for an absent object,
\* NoPoint for an absent coordinate pair
None == "None"
Null == [null |-> TRUE]
NoPoint == <<>>

\* the integers that int() has to recognise in the strings of the model
Numerals == (0..25) \cup {3059, 3857}
NumeralTokens == {ToString(n) : n \in Numerals}
TokenValue == [t \in NumeralTokens |-> CHOOSE n \in Numerals : ToString(n) = t]
IsIntToken(s) == s \in NumeralTokens
IntOf(s) == TokenValue[s]

\* an exception of the given type, where a value was expected
Raise(kind) == [raise |-> kind]
Raised(v) == "raise" \in DOMAIN v

----------------------------------------------------------------------------
(* Configuration *)

\* a system without a static scale table (None, as falsy as an empty dict)
NoScales == [z \in {} |-> 0]

\* 2 * 156543.03392804062 m (the zoom-0 pixel size of _calculate_pixel_size,
\* doubled for 512px tiles) in the length unit of each CRS
PixelSizeZoom0 == [e \in {3059, 3857} |-> IF e = 3059 THEN 44726581 ELSE 1048576]

COORDINATE_SYSTEMS ==
    [s \in {"LKS_LVM", "WebMercatorQuad", "EPSG:3857"} |->
       CASE s = "LKS_LVM" ->
              [name |-> "LKS_LVM", tile_matrix_prefix |-> <<"LKS_LVM">>,
               bounds |-> <<251000, 556000, 323000, 581000>>,
               min_zoom |-> 7, max_zoom |-> 18,
               wmts_url |-> "lvmgeo", tile_matrix_set_id |-> "LKS_LVM",
               layer_id |-> "public:Topo10DTM",
               epsg |-> 3059, origin |-> NoPoint, tile_matrix_scales |-> NoScales]
         [] s = "WebMercatorQuad" ->
              [name |-> "WebMercatorQuad", tile_matrix_prefix |-> <<"">>,
               bounds |-> <<200000, 550000, 290000, 590000>>,
               min_zoom |-> 1, max_zoom |-> 18,
               wmts_url |-> "lvmgeo", tile_matrix_set_id |-> "WebMercatorQuad",
               layer_id |-> "public:Topo10DTM",
               epsg |-> 3857, origin |-> NoPoint, tile_matrix_scales |-> NoScales]
         [] s = "EPSG:3857" ->
              [name |-> "Web Mercator", tile_matrix_prefix |-> <<"EPSG", "3857">>,
               bounds |-> <<-1800000, -850511, 1800000, 850511>>,
               min_zoom |-> 0, max_zoom |-> 20,
               wmts_url |-> None, tile_matrix_set_id |-> None,
               layer_id |-> None,
               epsg |-> 3857, origin |-> <<-67108864, 67108864>>,
               tile_matrix_scales |-> NoScales]]

get_coordinate_system(name) ==
    IF name \in DOMAIN COORDINATE_SYSTEMS THEN COORDINATE_SYSTEMS[name] ELSE Null

\* settings.WMTS_ENDPOINTS: the two default endpoints and, as the setting is
\* read from the environment, one endpoint on a static coordinate system
WMTS_ENDPOINTS ==
    [n \in {"latvia", "latvia_webmercator", "mercator"} |->
       CASE n = "latvia" -> [coordinate_system |-> "LKS_LVM"]
         [] n = "latvia_webmercator" -> [coordinate_system |-> "WebMercatorQuad"]
         [] n = "mercator" -> [coordinate_system |-> "EPSG:3857"]]

DEFAULT_ENDPOINT == "latvia_webmercator"

\* `name or settings.DEFAULT_ENDPOINT`: the empty string and None are falsy
EndpointName(name) == IF name \in {"", None} THEN DEFAULT_ENDPOINT ELSE name

\* get_endpoint with the default endpoint for every name it does not find
get_endpoint_Default(name) ==
    IF EndpointName(name) \in DOMAIN WMTS_ENDPOINTS
    THEN WMTS_ENDPOINTS[EndpointName(name)]
    ELSE WMTS_ENDPOINTS[DEFAULT_ENDPOINT]

get_endpoint(name) ==
    IF EndpointName(name) \in DOMAIN WMTS_ENDPOINTS
    THEN WMTS_ENDPOINTS[EndpointName(name)]
    ELSE Raise("ValueError")

LKS_LVM_TILE_LIMITS ==
    [z \in 7..18 |->
       CASE z = 7  -> [min_col |-> 19,   max_col |-> 99,    min_row |-> 1,   max_row |-> 48]
         [] z = 8  -> [min_col |-> 28,   max_col |-> 133,   min_row |-> 2,   max_row |-> 64]
         [] z = 9  -> [min_col |-> 42,   max_col |-> 199,   min_row |-> 3,   max_row |-> 97]
         [] z = 10 -> [min_col |-> 56,   max_col |-> 266,   min_row |-> 4,   max_row |-> 129]
         [] z = 11 -> [min_col |-> 84,   max_col |-> 399,   min_row |-> 6,   max_row |-> 194]
         [] z = 12 -> [min_col |-> 168,  max_col |-> 799,   min_row |-> 13,  max_row |-> 389]
         [] z = 13 -> [min_col |-> 420,  max_col |-> 2000,  min_row |-> 32,  max_row |-> 974]
         [] z = 14 -> [min_col |-> 841,  max_col |-> 4000,  min_row |-> 65,  max_row |-> 1948]
         [] z = 15 -> [min_col |-> 1121, max_col |-> 5333,  min_row |-> 87,  max_row |-> 2598]
         [] z = 16 -> [min_col |-> 1682, max_col |-> 8000,  min_row |-> 131, max_row |-> 3897]
         [] z = 17 -> [min_col |-> 3364, max_col |-> 16000, min_row |-> 262, max_row |-> 7795]
         [] z = 18 -> [min_col |-> 8410, max_col |-> 40000, min_row |-> 655, max_row |-> 19488]]

\* is_tile_in_bounds without the comparison of the row
is_tile_in_bounds_ColumnsOnly(zoom_level, tile_col, tile_row) ==
    IF zoom_level \notin DOMAIN LKS_LVM_TILE_LIMITS
    THEN FALSE
    ELSE LET limits == LKS_LVM_TILE_LIMITS[zoom_level]
         IN limits.min_col <= tile_col /\ tile_col <= limits.max_col

is_tile_in_bounds(zoom_level, tile_col, tile_row) ==
    IF zoom_level \notin DOMAIN LKS_LVM_TILE_LIMITS
    THEN FALSE
    ELSE LET limits == LKS_LVM_TILE_LIMITS[zoom_level]
         IN /\ limits.min_col <= tile_col /\ tile_col <= limits.max_col
            /\ limits.min_row <= tile_row /\ tile_row <= limits.max_row

----------------------------------------------------------------------------
(* Inputs: client tiles and what the upstream servers answer *)

Tile(z, x, y) == [z |-> z, x |-> x, y |-> y]

\* tiles inside and around Latvia, and tiles outside the slippy-map range
LatviaTiles == { Tile(10, 580, 316), Tile(5, 18, 9), Tile(20, 593920, 335000),
                 Tile(10, 2000, 0), Tile(-1, 0, 0) }

\* the capabilities documents the WMTS server may answer with: a document is
\* its layers and its tile matrix sets; each matrix set is its SupportedCRS
\* and the list of its TileMatrix elements
TopLeft == <<27142857, 65142857>>

\* the zooms whose TileMatrix the document lists, and their scale denominators
ServerZooms == <<7, 10, 18>>

ScaleDenominators ==
    [z \in {7, 10, 18} |->
       CASE z = 7 -> 40000 [] z = 10 -> 15000 [] z = 18 -> 100]

ServerTileMatrix(set, z) ==
    [identifier |-> <<set, ToString(z)>>,
     scale_denominator |-> ScaleDenominators[z],
     top_left_corner |-> TopLeft,
     tile_width |-> 512, tile_height |-> 512]

ServerLayerBBox == <<209000, 556000, 283000, 581000>>

ServerLayers ==
    [l \in {"public:Topo10DTM"} |-> [wgs84_bounding_box |-> ServerLayerBBox]]

ServerMatrixSets ==
    [m \in {"LKS_LVM", "WebMercatorQuad"} |->
       IF m = "LKS_LVM"
       THEN [supported_crs |-> <<"urn", "ogc", "def", "crs", "EPSG", "", "3059">>,
             matrices |-> [i \in 1..Len(ServerZooms) |-> ServerTileMatrix(m, ServerZooms[i])]]
       ELSE [supported_crs |-> <<"urn", "ogc", "def", "crs", "EPSG", "", "3857">>,
             matrices |-> [i \in 1..Len(ServerZooms) |-> ServerTileMatrix(m, ServerZooms[i])]]]

NoMatrixSets == [m \in {} |-> Null]

CapabilitiesDoc(answer) ==
    CASE answer = "full" ->
           [well_formed |-> TRUE, layers |-> ServerLayers, matrix_sets |-> ServerMatrixSets]
      [] OTHER ->
           [well_formed |-> TRUE, layers |-> ServerLayers, matrix_sets |-> NoMatrixSets]

\* "error" is a transport error or a non-2xx answer to GetCapabilities
CapabilitiesAnswers == {"error", "no_matrix_set", "full"}

\* the CRS-info service answers the JSON lookup and the proj4 lookup, or neither
CrsAnswers == {"both", "neither"}

\* the tile server answers an image the client can decode ("png"), an image it
\* cannot decode ("raw"), a status other than 200, a content type that is no
\* image, or the transport fails
TileAnswers == {"png", "raw", "http_error", "not_image", "transport_error"}

----------------------------------------------------------------------------
(* wmts_capabilities.py *)

NoEpsg == 0

Min(S) == CHOOSE m \in S : \A n \in S : m <= n

\* the EPSG code of a SupportedCRS string
ParseEpsg(supported_crs) ==
    IF \E i \in 1..Len(supported_crs) : supported_crs[i] = "EPSG"
    THEN IF Len(supported_crs) > 1
         THEN LET firsts == {i \in 1..Len(supported_crs) :
                               supported_crs[i] = "EPSG" /\ i < Len(supported_crs)}
              IN IF firsts = {}
                 THEN NoEpsg
                 ELSE LET i == Min(firsts)
                          ints == {j \in (i + 1)..Len(supported_crs) :
                                     IsIntToken(supported_crs[j])}
                      IN IF ints = {} THEN NoEpsg ELSE IntOf(supported_crs[Min(ints)])
         ELSE NoEpsg
    ELSE NoEpsg

\* zoom_level = int(tile_matrix.identifier.split(':')[1])
MatrixZoom(identifier) ==
    IF Len(identifier) < 2
    THEN Raise("IndexError")
    ELSE IF IsIntToken(identifier[2])
         THEN [zoom |-> IntOf(identifier[2])]
         ELSE Raise("ValueError")

_parse_tile_matrix_set_element(id, elem) ==
    IF \E i \in 1..Len(elem.matrices) : Raised(MatrixZoom(elem.matrices[i].identifier))
    THEN Raise("Exception")
    ELSE LET zoomOf(i) == MatrixZoom(elem.matrices[i].identifier).zoom
             zooms == {zoomOf(i) : i \in 1..Len(elem.matrices)}
             last(z) == CHOOSE i \in 1..Len(elem.matrices) :
                          /\ zoomOf(i) = z
                          /\ \A j \in 1..Len(elem.matrices) : zoomOf(j) = z => j <= i
         IN [identifier |-> id,
             epsg_code |-> ParseEpsg(elem.supported_crs),
             tile_matrices |-> [z \in zooms |-> elem.matrices[last(z)]]]

\* parse_tile_matrix_set: its except clause returns None
ParsedOrNone(tms) == IF Raised(tms) THEN Null ELSE tms

parse_tile_matrix_set(doc, tile_matrix_set_id) ==
    IF ~doc.well_formed
    THEN Null
    ELSE IF tile_matrix_set_id \notin DOMAIN doc.matrix_sets
         THEN Null
         ELSE ParsedOrNone(_parse_tile_matrix_set_element(
                               tile_matrix_set_id, doc.matrix_sets[tile_matrix_set_id]))

parse_layer_info(doc, layer_id) ==
    IF ~doc.well_formed
    THEN Null
    ELSE IF layer_id \notin DOMAIN doc.layers
         THEN Null
         ELSE [identifier |-> layer_id,
               wgs84_bounding_box |-> doc.layers[layer_id].wgs84_bounding_box]

\* get_wmts_info from the two parse results on: the pair it returns and the
\* capabilities cache it leaves
CacheParsed(cache, capabilities_url, layer_id, tile_matrix_set_id, layer_info, tile_matrix_set) ==
    LET layerKey == <<capabilities_url, "layer", layer_id>>
        tmsKey == <<capabilities_url, "tms", tile_matrix_set_id>>
        c1 == IF layer_info # Null
              THEN [k \in DOMAIN cache \cup {layerKey} |->
                      IF k = layerKey THEN layer_info ELSE cache[k]]
              ELSE cache
    IN [layer_info |-> layer_info, tile_matrix_set |-> tile_matrix_set,
        cache |-> IF tile_matrix_set # Null
                  THEN [k \in DOMAIN c1 \cup {tmsKey} |->
                          IF k = tmsKey THEN tile_matrix_set ELSE c1[k]]
                  ELSE c1]

\* get_wmts_info on the server's answer, or the exception of
\* fetch_capabilities
get_wmts_info(cache, answer, capabilities_url, layer_id, tile_matrix_set_id) ==
    IF answer = "error"
    THEN Raise("HTTPError")
    ELSE CacheParsed(cache, capabilities_url, layer_id, tile_matrix_set_id,
                     parse_layer_info(CapabilitiesDoc(answer), layer_id),
                     parse_tile_matrix_set(CapabilitiesDoc(answer), tile_matrix_set_id))

----------------------------------------------------------------------------
(* coordinates.py: CoordinateTransformer *)

\* CoordinateTransformer.__init__; three history fields: stale tells that
\* clear_cache ran since the construction, fetched that the object received
\* a capabilities answer and docs which answers it received
NewTransformer(target_system) ==
    [target_system |-> target_system,
     bounds |-> COORDINATE_SYSTEMS[target_system].bounds,
     tile_matrix_set |-> Null,
     layer_info |-> Null,
     target_crs |-> NoEpsg,
     stale |-> FALSE,
     fetched |-> FALSE,
     docs |-> {}]

\* the condition under which load_wmts_parameters fetches the capabilities
NeedsCapabilities(o) ==
    LET cfg == COORDINATE_SYSTEMS[o.target_system]
    IN /\ cfg.wmts_url # None
       /\ cfg.tile_matrix_set_id # None
       /\ o.tile_matrix_set = Null

ActualCoverage == <<251000, 556000, 323000, 581000>>

\* load_wmts_parameters taking the bounds of the layer whether or not the
\* tile matrix set was found
AssignCapabilities_BoundsWithoutMatrixSet(o, info) ==
    LET cfg == COORDINATE_SYSTEMS[o.target_system]
        o1 == [o EXCEPT !.layer_info = info.layer_info,
                        !.tile_matrix_set = info.tile_matrix_set,
                        !.fetched = TRUE]
    IN IF info.layer_info # Null /\ info.layer_info.wgs84_bounding_box # NoPoint
       THEN IF cfg.name = "LKS_LVM"
            THEN [o1 EXCEPT !.bounds = <<251000, 556000, 323000, 581000>>]
            ELSE [o1 EXCEPT !.bounds = info.layer_info.wgs84_bounding_box]
       ELSE o1

\* load_wmts_parameters dropping the tile matrix set when the transformer
\* had received capabilities before
AssignCapabilities_SecondClears(o, info) ==
    IF o.fetched
    THEN [o EXCEPT !.layer_info = info.layer_info, !.tile_matrix_set = Null]
    ELSE [o EXCEPT !.layer_info = info.layer_info,
                   !.tile_matrix_set = info.tile_matrix_set,
                   !.fetched = TRUE]

\* load_wmts_parameters from the return of get_wmts_info to the call of
\* _initialize_crs
AssignCapabilities(o, info) ==
    LET cfg == COORDINATE_SYSTEMS[o.target_system]
        o1 == [o EXCEPT !.layer_info = info.layer_info,
                        !.tile_matrix_set = info.tile_matrix_set,
                        !.fetched = TRUE]
    IN IF info.tile_matrix_set # Null /\ info.layer_info # Null
          /\ info.layer_info.wgs84_bounding_box # NoPoint
       THEN IF cfg.name = "LKS_LVM"
            THEN [o1 EXCEPT !.bounds = ActualCoverage]
            ELSE [o1 EXCEPT !.bounds = info.layer_info.wgs84_bounding_box]
       ELSE o1

\* the EPSG codes the projection provider knows
KnownEpsg == {3059, 3857}

\* _initialize_crs: the code whose CRS it asks for
TargetEpsg(o) ==
    LET cfg == COORDINATE_SYSTEMS[o.target_system]
    IN IF o.tile_matrix_set # Null /\ o.tile_matrix_set.epsg_code # NoEpsg
       THEN o.tile_matrix_set.epsg_code
       ELSE cfg.epsg

\* _initialize_crs: the CRS the transformer pair ends up with
_initialize_crs(o, target_epsg, proj4) ==
    LET cfg == COORDINATE_SYSTEMS[o.target_system]
    IN IF target_epsg # NoEpsg /\ (proj4 \/ target_epsg \in KnownEpsg)
       THEN [o EXCEPT !.target_crs = target_epsg]
       ELSE [o EXCEPT !.target_crs = IF cfg.epsg # NoEpsg THEN cfg.epsg ELSE 3059]

\* the CRS-info lookups of one _initialize_crs run and the cache they leave
CrsLevel(cache, epsg) == IF epsg \in DOMAIN cache THEN cache[epsg] ELSE 0

CrsLookups(cache, epsg) ==
    IF epsg = NoEpsg
    THEN 0
    ELSE (IF CrsLevel(cache, epsg) = 0 THEN 1 ELSE 0)
         + (IF CrsLevel(cache, epsg) < 2 THEN 1 ELSE 0)

CrsCacheAfter(cache, epsg, answer) ==
    LET afterInfo == IF CrsLevel(cache, epsg) = 0 /\ answer \in {"both", "info"}
                     THEN 1 ELSE CrsLevel(cache, epsg)
        afterProj4 == IF afterInfo = 1 /\ answer = "both" THEN 2 ELSE afterInfo
    IN IF epsg \in DOMAIN cache THEN [cache EXCEPT ![epsg] = afterProj4] ELSE cache

get_tile_matrix(o, zoom_level) ==
    IF o.tile_matrix_set # Null /\ zoom_level \in DOMAIN o.tile_matrix_set.tile_matrices
    THEN o.tile_matrix_set.tile_matrices[zoom_level]
    ELSE Null

Pow2(n) == 2 ^ n

\* int() of the quotient of two numbers, the divisor positive
Trunc(a, b) == IF a >= 0 THEN a \div b ELSE -((-a) \div b)

NonFinite == <<>>

\* tile_to_bbox_wgs84, the projection of the four corners and the centre of
\* their envelope: Web Mercator is computed, LKS-92 is tabulated for the
\* tiles of the model, and a tile farther than 90 degrees from the central
\* meridian has no finite projection
ProjectedCenter(crs, tile) ==
    IF crs = 3857
    THEN <<(2 * tile.x + 1) * Pow2(26 - tile.z) - Pow2(26),
           Pow2(26) - (2 * tile.y + 1) * Pow2(26 - tile.z)>>
    ELSE CASE tile = Tile(10, 580, 316) -> <<72152535, 36794082>>
           [] tile = Tile(5, 18, 9) -> <<108314849, 75093884>>
           [] tile = Tile(20, 593920, 335000) -> <<70559381, 3006974>>
           [] tile = Tile(10, 762, 512) -> <<1414014540, -863624906>>
           [] OTHER -> NonFinite

\* scale_denominator * 0.00028 in the length unit of the CRS
ScaleToPixel(crs, scale_denominator) ==
    IF crs = 3059
    THEN (scale_denominator * 4) \div 100
    ELSE (scale_denominator * 15) \div 16000

_calculate_pixel_size2(crs, zoom_level) == PixelSizeZoom0[crs] \div Pow2(zoom_level)

\* the quadrant without max(0, ...)
Clamp_NoLowerBound(lo, hi, v) == IF hi < v THEN hi ELSE v

\* the clamp without its min(..., max_zoom)
ZoomLevel_NoMaximum(cfg, z) == IF z < cfg.min_zoom THEN cfg.min_zoom ELSE z

ZoomLevel(cfg, z) ==
    LET zoom_level == IF z < cfg.max_zoom THEN z ELSE cfg.max_zoom
    IN IF zoom_level < cfg.min_zoom THEN cfg.min_zoom ELSE zoom_level

\* the five fields of a TransformedTileCoordinate
Transformed(tile_matrix, col, row, qx, qy) ==
    [tile_matrix |-> tile_matrix, tile_col |-> col, tile_row |-> row,
     quadrant_x |-> qx, quadrant_y |-> qy]

Clamp(lo, hi, v) ==
    LET m == IF hi < v THEN hi ELSE v
    IN IF lo > m THEN lo ELSE m

\* tile_matrix_scales.get(zoom_level, tile_matrix_scales[10]) of a table that
\* is not empty: the default argument is evaluated before the lookup
StaticScale(scales, zoom_level) ==
    IF 10 \notin DOMAIN scales
    THEN Raise("KeyError")
    ELSE IF zoom_level \in DOMAIN scales
         THEN [scale |-> scales[zoom_level]]
         ELSE [scale |-> scales[10]]

\* transform_tile: pixel size, origin and tile size of the matrix of the
\* zoom, from the capabilities when they list it and from the configured
\* system otherwise
MatrixGeometry(o, cfg, zoom_level, tile_matrix) ==
    IF tile_matrix # Null
    THEN [pixel_size |-> ScaleToPixel(o.target_crs, tile_matrix.scale_denominator),
          origin |-> tile_matrix.top_left_corner,
          tile_width |-> tile_matrix.tile_width,
          tile_height |-> tile_matrix.tile_height]
    ELSE IF DOMAIN cfg.tile_matrix_scales # {}
            /\ Raised(StaticScale(cfg.tile_matrix_scales, zoom_level))
         THEN StaticScale(cfg.tile_matrix_scales, zoom_level)
         ELSE [pixel_size |->
                  IF DOMAIN cfg.tile_matrix_scales # {}
                  THEN ScaleToPixel(o.target_crs,
                                    StaticScale(cfg.tile_matrix_scales, zoom_level).scale)
                  ELSE _calculate_pixel_size2(o.target_crs, zoom_level),
               origin |-> IF cfg.origin # NoPoint THEN cfg.origin ELSE <<0, 0>>,
               tile_width |-> 512,
               tile_height |-> 512]

\* transform_tile: column, row and quadrant of the cell that holds the
\* projected centre, in a matrix of the given tile size and origin
CellOfCenter(tile_matrix_id, center, origin, wmts_tile_size_x, wmts_tile_size_y, tiles_per_wmts_tile) ==
    LET wmts_tile_col == Trunc(center[1] - origin[1], wmts_tile_size_x)
        wmts_tile_row == Trunc(origin[2] - center[2], wmts_tile_size_y)
        relative_x == center[1] - (origin[1] + wmts_tile_col * wmts_tile_size_x)
        relative_y == (origin[2] - wmts_tile_row * wmts_tile_size_y) - center[2]
    IN Transformed(tile_matrix_id, wmts_tile_col, wmts_tile_row,
                   Clamp(0, tiles_per_wmts_tile - 1,
                         Trunc(relative_x, wmts_tile_size_x \div tiles_per_wmts_tile)),
                   Clamp(0, tiles_per_wmts_tile - 1,
                         Trunc(relative_y, wmts_tile_size_y \div tiles_per_wmts_tile)))

\* transform_tile from the projection of the tile to the return
CellInMatrix(tile_matrix_id, center, m) ==
    IF Raised(m)
    THEN m
    ELSE IF center = NonFinite
    THEN Raise("OverflowError")
    ELSE IF m.tile_width * m.pixel_size = 0 \/ m.tile_height * m.pixel_size = 0
            \/ m.tile_width \div 256 = 0
         THEN Raise("ZeroDivisionError")
         ELSE CellOfCenter(tile_matrix_id, center, m.origin,
                           m.tile_width * m.pixel_size, m.tile_height * m.pixel_size,
                           m.tile_width \div 256)

\* transform_tile at the clamped zoom
TransformAtZoom(o, tile, cfg, zoom_level) ==
    CellInMatrix(cfg.tile_matrix_prefix \o <<ToString(zoom_level)>>,
                 ProjectedCenter(o.target_crs, tile),
                 MatrixGeometry(o, cfg, zoom_level, get_tile_matrix(o, zoom_level)))

\* transform_tile from the zoom clamp to the return, on a transformer whose
\* projection is set up
TransformCell(o, tile) ==
    TransformAtZoom(o, tile, COORDINATE_SYSTEMS[o.target_system],
                    ZoomLevel(COORDINATE_SYSTEMS[o.target_system], tile.z))

\* the passthrough result with column and row exchanged
PassthroughCell_Swapped(tile) == Transformed(<<ToString(tile.z)>>, tile.y, tile.x, 0, 0)

\* the passthrough branch of transform_tile
PassthroughCell(tile) == Transformed(<<ToString(tile.z)>>, tile.x, tile.y, 0, 0)

IsPassthrough(o) == COORDINATE_SYSTEMS[o.target_system].name = "WebMercatorQuad"

\* the range checks without the upper bound 2^z of x and y
InTileRange_NoUpperBound(tile) ==
    /\ ~(tile.z < 0 \/ tile.z > 20)
    /\ ~(tile.x < 0)
    /\ ~(tile.y < 0)

\* the range checks that open is_valid_tile
InTileRange(tile) ==
    /\ ~(tile.z < 0 \/ tile.z > 20)
    /\ ~(tile.x < 0 \/ tile.x >= Pow2(tile.z))
    /\ ~(tile.y < 0 \/ tile.y >= Pow2(tile.z))

\* zoom_level = int(transformed.tile_matrix.split(":")[1])
TileMatrixZoom(tile_matrix) ==
    IF Len(tile_matrix) < 2
    THEN Raise("IndexError")
    ELSE IF IsIntToken(tile_matrix[2])
         THEN [zoom |-> IntOf(tile_matrix[2])]
         ELSE Raise("ValueError")

\* is_valid_tile: is_tile_in_bounds at the zoom read from the tile matrix
\* is_valid_tile accepting every cell whose zoom it can read
LimitCheck_AcceptsAll(zoom_level, transformed) ==
    IF Raised(zoom_level) THEN zoom_level ELSE [in_bounds |-> TRUE]

LimitCheck(zoom_level, transformed) ==
    IF Raised(zoom_level)
    THEN zoom_level
    ELSE [in_bounds |-> is_tile_in_bounds(zoom_level.zoom, transformed.tile_col,
                                          transformed.tile_row)]

\* is_valid_tile after a transform_tile that returned: the limit check
CellInBounds(transformed) ==
    LimitCheck(TileMatrixZoom(transformed.tile_matrix), transformed)

----------------------------------------------------------------------------
(* wmts_client.py *)

\* fetch_tile returning the body of every answer it cannot decode
fetch_tile_ReturnsBody(endpoint_name, tile_coord, answer) ==
    LET endpoint == get_endpoint(endpoint_name)
        params == [tilematrixset |-> endpoint.coordinate_system,
                   TileMatrix |-> tile_coord.tile_matrix,
                   TileCol |-> tile_coord.tile_col,
                   TileRow |-> tile_coord.tile_row]
    IN IF answer = "png"
       THEN [image |-> "png", params |-> params,
             quadrant |-> <<tile_coord.quadrant_x, tile_coord.quadrant_y>>]
       ELSE [image |-> "raw", params |-> params, quadrant |-> NoPoint]

\* WMTSClient.fetch_tile on the server's answer: the bytes it returns
fetch_tile(endpoint_name, tile_coord, answer) ==
    LET endpoint == get_endpoint(endpoint_name)
        params == [tilematrixset |-> endpoint.coordinate_system,
                   TileMatrix |-> tile_coord.tile_matrix,
                   TileCol |-> tile_coord.tile_col,
                   TileRow |-> tile_coord.tile_row]
    IN CASE answer = "png" ->
              [image |-> "png", params |-> params,
               quadrant |-> <<tile_coord.quadrant_x, tile_coord.quadrant_y>>]
         [] answer = "raw" ->
              [image |-> "raw", params |-> params, quadrant |-> NoPoint]
         [] OTHER -> Null

----------------------------------------------------------------------------
(* cachetools.TTLCache as app.py uses it; the requests of a run are fewer  *)
(* than CACHE_SIZE, so no entry is evicted for room                         *)

\* a cache key that leaves the endpoint out
CacheKey_NoEndpoint(endpoint_name, tile) == <<"", tile.z, tile.x, tile.y>>

CacheKey(endpoint_name, tile) == <<endpoint_name, tile.z, tile.x, tile.y>>

CacheKeys(cache) == {cache[i][1] : i \in 1..Len(cache)}

CacheContains(cache, key) == key \in CacheKeys(cache)

CacheGet(cache, key) ==
    cache[CHOOSE i \in 1..Len(cache) : cache[i][1] = key][2]

\* a store that leaves the entry the key had
CacheSet_Appends(cache, key, data) == Append(cache, <<key, data>>)

CacheSet(cache, key, data) ==
    Append(SelectSeq(cache, LAMBDA e : e[1] # key), <<key, data>>)

----------------------------------------------------------------------------
(* app.py: the requests *)

\* the tile requests of the model: endpoint, tile and passthrough parameter
TileRequests ==
    ({"latvia"} \X (LatviaTiles \ {Tile(20, 593920, 335000)}) \X {FALSE})
    \cup ({"latvia"} \X {Tile(20, 593920, 335000)} \X {TRUE})
    \cup ({"latvia_webmercator"} \X {Tile(10, 580, 316), Tile(21, 0, 0)} \X {FALSE})
    \cup ({"mercator"} \X {Tile(10, 300, 100)} \X {FALSE})
    \cup ({"nonexistent"} \X {Tile(10, 580, 316), Tile(-1, 0, 0)} \X {FALSE})
    \cup ({""} \X {Tile(10, 580, 316)} \X {FALSE})

BoundsRequests == {"latvia", "latvia_webmercator"}

Transparent == [image |-> "transparent"]

\* a request slot: pc names the await the request is suspended at,
\*   "caps" the GetCapabilities request, "crs" the CRS-info lookups,
\*   "fetch" the GetTile request
\* endpoint and passthrough are the query parameters as the client sent
\* them, ep is endpoint_name
\* phase names the caller of transform_tile: "valid" is is_valid_tile,
\* "transform" is get_tile itself; ret names the caller of _initialize_crs
IdleRequest ==
    [kind |-> "idle", endpoint |-> "", passthrough |-> FALSE,
     ep |-> "", tile |-> Tile(0, 0, 0), pc |-> "idle",
     phase |-> "", ret |-> "", tr |-> <<>>, epsg |-> NoEpsg, stale |-> FALSE,
     status |-> 0, body |-> Null, hit |-> FALSE, valid |-> "unknown",
     load |-> "none", caps_answer |-> "", tile_answer |-> "", absorbed |-> None, error |-> None,
     t1 |-> Null, t2 |-> Null,
     n_caps |-> 0, n_crs |-> 0, n_tile |-> 0]

NewRequest(kind, endpoint, tile) ==
    [IdleRequest EXCEPT !.kind = kind, !.endpoint = endpoint,
                        !.ep = EndpointName(endpoint), !.tile = tile]

\* the part of the state a request reads and writes while it runs
State(r) ==
    [r |-> r, objs |-> objs, transformers |-> transformers, clients |-> clients,
     capabilities_cache |-> capabilities_cache, crs_cache |-> crs_cache,
     tile_cache |-> tile_cache]

Respond(S, status, body) ==
    [S EXCEPT !.r.pc = "done", !.r.status = status, !.r.body = body]

\* is_valid_tile without its except clause: the exception reaches the handler
\* of the route
Throw_Propagates(S, kind) == Respond([S EXCEPT !.r.error = kind], 500, Null)

\* an exception leaves transform_tile or load_wmts_parameters: is_valid_tile
\* turns it into False and get_tile answers 400; elsewhere it reaches the
\* handler of the route, which answers 500
Throw(S, kind) ==
    IF S.r.kind = "tile" /\ S.r.phase = "valid"
    THEN Respond([S EXCEPT !.r.valid = "false", !.r.absorbed = kind], 400, Null)
    ELSE Respond([S EXCEPT !.r.error = kind], 500, Null)

\* get_bounds after load_wmts_parameters
BoundsResponse(S) ==
    Respond(S, 200, [bounds |-> S.objs[S.r.tr].bounds])

\* get_tile from the return of its own transform_tile call to the await of
\* fetch_tile
Preflight(S, zoom_level) ==
    IF Raised(zoom_level)
    THEN Throw(S, zoom_level.raise)
    ELSE IF ~is_tile_in_bounds(zoom_level.zoom, S.r.t2.tile_col, S.r.t2.tile_row)
         THEN Respond(S, 200, Transparent)
         ELSE [S EXCEPT !.r.pc = "fetch", !.r.n_tile = @ + 1]

AfterTransform(S) ==
    IF get_endpoint(S.r.ep).coordinate_system # "WebMercatorQuad"
    THEN Preflight(S, TileMatrixZoom(S.r.t2.tile_matrix))
    ELSE [S EXCEPT !.r.pc = "fetch", !.r.n_tile = @ + 1]

RECURSIVE transform_tile(_), AfterLoad(_), EnterInitializeCrs(_, _),
          AfterInitializeCrs(_, _), AfterLimitCheck(_, _), Return(_, _), Compute(_)

\* transform_tile of a transformed system up to its first await
transform_tile(S) ==
    IF NeedsCapabilities(S.objs[S.r.tr])
    THEN [S EXCEPT !.r.pc = "caps", !.r.n_caps = @ + 1]
    ELSE AfterLoad([S EXCEPT !.r.load = "returned"])

\* transform_tile after load_wmts_parameters returned
AfterLoad(S) ==
    IF S.objs[S.r.tr].target_crs = NoEpsg
    THEN EnterInitializeCrs(S, "transform")
    ELSE Compute(S)

\* _initialize_crs up to its first lookup; without a lookup to wait for it
\* runs to its end
EnterInitializeCrs(S, ret) ==
    LET o == S.objs[S.r.tr]
        target_epsg == TargetEpsg(o)
        lookups == CrsLookups(S.crs_cache, target_epsg)
    IN IF lookups = 0
       THEN AfterInitializeCrs(
                [S EXCEPT !.objs[S.r.tr] = _initialize_crs(o, target_epsg, TRUE)], ret)
       ELSE [S EXCEPT !.r.pc = "crs", !.r.ret = ret, !.r.epsg = target_epsg,
                      !.r.n_crs = @ + lookups]

\* the return of _initialize_crs to load_wmts_parameters or to transform_tile
AfterInitializeCrs(S, ret) ==
    IF S.r.kind = "bounds"
    THEN BoundsResponse(S)
    ELSE IF ret = "load"
         THEN AfterLoad([S EXCEPT !.r.load = "returned"])
         ELSE Compute(S)

\* is_valid_tile from the limit check of the transformed cell on; a valid
\* tile takes get_tile to its own transform_tile call
AfterLimitCheck(S, checked) ==
    IF Raised(checked)
    THEN Throw(S, checked.raise)
    ELSE IF ~checked.in_bounds
         THEN Respond([S EXCEPT !.r.valid = "false"], 400, Null)
         ELSE transform_tile([S EXCEPT !.r.valid = "true", !.r.phase = "transform"])

\* the return of transform_tile to its caller, is_valid_tile or get_tile
Return(S, transformed) ==
    IF Raised(transformed)
    THEN Throw(S, transformed.raise)
    ELSE IF S.r.phase = "valid"
         THEN AfterLimitCheck([S EXCEPT !.r.t1 = transformed], CellInBounds(transformed))
         ELSE AfterTransform([S EXCEPT !.r.t2 = transformed])

\* transform_tile from the zoom clamp on
Compute(S) == Return(S, TransformCell(S.objs[S.r.tr], S.r.tile))

\* get_transformer: the registry and the objects after the call, or the
\* exception of an unknown endpoint or coordinate system
get_transformer(S, name) ==
    IF name \in DOMAIN S.transformers
    THEN [S EXCEPT !.r.tr = S.transformers[name]]
    ELSE LET endpoint == get_endpoint(name)
         IN IF Raised(endpoint)
            THEN endpoint
            ELSE IF get_coordinate_system(endpoint.coordinate_system) = Null
                 THEN Raise("ValueError")
                 ELSE LET id == <<name, Min({n \in 0..Cardinality(Slots) :
                                                <<name, n>> \notin DOMAIN S.objs})>>
                          new == NewTransformer(endpoint.coordinate_system)
                      IN [S EXCEPT
                            !.objs = [k \in DOMAIN @ \cup {id} |->
                                        IF k = id THEN new ELSE @[k]],
                            !.transformers = [n \in DOMAIN @ \cup {name} |->
                                                IF n = name THEN id ELSE @[n]],
                            !.r.tr = id]

get_client(S, name) == [S EXCEPT !.clients = @ \cup {name}]

\* is_valid_tile and the rest of get_tile up to the first await
is_valid_tile(S) ==
    IF ~InTileRange(S.r.tile)
    THEN Respond([S EXCEPT !.r.valid = "false"], 400, Null)
    ELSE IF IsPassthrough(S.objs[S.r.tr])
         THEN AfterTransform([S EXCEPT !.r.valid = "true",
                                       !.r.phase = "transform",
                                       !.r.t2 = PassthroughCell(S.r.tile)])
         ELSE transform_tile([S EXCEPT !.r.phase = "valid"])

\* get_tile from the return of get_transformer to its first await
WithTransformer(S, S1) ==
    IF Raised(S1)
    THEN Throw(S, S1.raise)
    ELSE is_valid_tile(get_client(S1, S.r.ep))

\* get_tile up to its first await; lapse tells that the TTL of the entry
\* runs out between the membership test and the read; the passthrough
\* parameter of the request is read nowhere in the handler
get_tile(S, lapse) ==
    IF S.r.tile.z < 0 \/ S.r.tile.x < 0 \/ S.r.tile.y < 0
    THEN Respond(S, 400, Null)
    ELSE IF CacheContains(S.tile_cache, CacheKey(S.r.ep, S.r.tile))
         THEN IF lapse
              THEN Throw([S EXCEPT !.r.hit = TRUE,
                                   !.tile_cache = SelectSeq(@, LAMBDA e :
                                       e[1] # CacheKey(S.r.ep, S.r.tile))],
                         "KeyError")
              ELSE Respond([S EXCEPT !.r.hit = TRUE], 200,
                           CacheGet(S.tile_cache, CacheKey(S.r.ep, S.r.tile)))
         ELSE WithTransformer(S, get_transformer(S, S.r.ep))

\* get_bounds from the return of get_transformer to its first await
BoundsOf(S, S1) ==
    IF Raised(S1)
    THEN Throw(S, S1.raise)
    ELSE IF NeedsCapabilities(S1.objs[S1.r.tr])
         THEN [S1 EXCEPT !.r.pc = "caps", !.r.n_caps = @ + 1]
         ELSE BoundsResponse([S1 EXCEPT !.r.load = "returned"])

\* get_bounds up to its first await
get_bounds(S) == BoundsOf(S, get_transformer(S, S.r.ep))

\* load_wmts_parameters after the assignment of the capabilities
AfterAssign(S) ==
    IF S.objs[S.r.tr].tile_matrix_set # Null
    THEN EnterInitializeCrs(S, "load")
    ELSE IF S.r.kind = "bounds"
         THEN BoundsResponse([S EXCEPT !.r.load = "returned"])
         ELSE AfterLoad([S EXCEPT !.r.load = "returned"])

\* load_wmts_parameters from the return of get_wmts_info on
AfterGetWmtsInfo(S, info) ==
    IF Raised(info)
    THEN Throw([S EXCEPT !.r.load = "raised"], info.raise)
    ELSE AfterAssign([S EXCEPT !.objs[S.r.tr] =
                                  [AssignCapabilities(@, info) EXCEPT
                                      !.docs = @ \cup {S.r.caps_answer}],
                               !.capabilities_cache = info.cache])

\* load_wmts_parameters from the answer to GetCapabilities on
OnCapabilities(S, answer) ==
    AfterGetWmtsInfo(
        [S EXCEPT !.r.caps_answer = answer],
        get_wmts_info(S.capabilities_cache, answer,
                      COORDINATE_SYSTEMS[S.objs[S.r.tr].target_system].wmts_url,
                      IF COORDINATE_SYSTEMS[S.objs[S.r.tr].target_system].layer_id # None
                      THEN COORDINATE_SYSTEMS[S.objs[S.r.tr].target_system].layer_id
                      ELSE "unknown",
                      COORDINATE_SYSTEMS[S.objs[S.r.tr].target_system].tile_matrix_set_id))

\* _initialize_crs from the answers of the CRS-info service on
OnCrs(S, answer) ==
    LET o == S.objs[S.r.tr]
        cache == CrsCacheAfter(S.crs_cache, S.r.epsg, answer)
        proj4 == answer = "both" \/ CrsLevel(S.crs_cache, S.r.epsg) = 2
    IN AfterInitializeCrs(
           [S EXCEPT !.crs_cache = cache,
                     !.objs[S.r.tr] = _initialize_crs(o, S.r.epsg, proj4)],
           S.r.ret)

\* get_tile calling fetch_tile again when it returned None
\* get_tile storing the result of fetch_tile before it tests it
OnTile_StoresFirst(S, answer) ==
    LET tile_data == fetch_tile(S.r.ep, S.r.t2, answer)
        stored == [S EXCEPT !.r.tile_answer = answer,
                            !.tile_cache =
                      CacheSet(@, CacheKey(S.r.ep, S.r.tile), tile_data)]
    IN IF tile_data # Null
       THEN Respond(stored, 200, tile_data)
       ELSE Respond(stored, 404, Null)

OnTile_Retries(S, answer) ==
    LET tile_data == fetch_tile(S.r.ep, S.r.t2, answer)
    IN IF tile_data # Null
       THEN Respond([S EXCEPT !.r.tile_answer = answer,
                              !.tile_cache =
                        CacheSet(@, CacheKey(S.r.ep, S.r.tile), tile_data)],
                    200, tile_data)
       ELSE [S EXCEPT !.r.tile_answer = answer, !.r.n_tile = @ + 1]

\* get_tile from the return of fetch_tile on
OnTile(S, answer) ==
    LET tile_data == fetch_tile(S.r.ep, S.r.t2, answer)
    IN IF tile_data # Null
       THEN Respond([S EXCEPT !.r.tile_answer = answer,
                              !.tile_cache =
                        CacheSet(@, CacheKey(S.r.ep, S.r.tile), tile_data)],
                    200, tile_data)
       ELSE Respond([S EXCEPT !.r.tile_answer = answer], 404, Null)

----------------------------------------------------------------------------
(* The state machine *)

\* the module state of app.py once it is imported: nothing cached, no
\* transformer, no client, no request
Imported ==
    /\ tile_cache = <<>>
    /\ transformers = [n \in {} |-> <<>>]
    /\ clients = {}
    /\ objs = [k \in {} |-> Null]
    /\ capabilities_cache = [k \in {} |-> Null]
    /\ crs_cache = [e \in KnownEpsg |-> 0]
    /\ req = [i \in Slots |-> IdleRequest]
    /\ just_cleared = FALSE
    /\ started = 0

Init ==
    /\ Imported
    /\ probe = Null

\* a request that was answered is forgotten at the next step of the system
Forget(r) == IF r.pc = "done" THEN IdleRequest ELSE r

\* the objects still referenced by the registry or by a request
Live(registry, requests, heap) ==
    LET ids == {registry[n] : n \in DOMAIN registry}
               \cup {requests[j].tr : j \in {k \in Slots : requests[k].kind # "idle"}}
    IN [k \in DOMAIN heap \cap ids |-> heap[k]]

\* the state after slot i ran to S
Commit(i, S) ==
    /\ req' = [j \in Slots |-> IF j = i THEN S.r ELSE Forget(req[j])]
    /\ objs' = Live(S.transformers, req', S.objs)
    /\ transformers' = S.transformers
    /\ clients' = S.clients
    /\ capabilities_cache' = S.capabilities_cache
    /\ crs_cache' = S.crs_cache
    /\ tile_cache' = S.tile_cache
    /\ just_cleared' = FALSE
    /\ UNCHANGED probe

\* a new request takes the first slot that holds no request in flight
Free(i) ==
    /\ req[i].pc \in {"idle", "done"}
    /\ \A j \in Slots : j < i => req[j].pc \notin {"idle", "done"}

\* GET /tiles/{z}/{x}/{y}?endpoint=...&passthrough=...
TileRequest(i, endpoint, tile, passthrough, lapse) ==
    /\ Free(i)
    /\ started < MaxRequests
    /\ lapse => CacheContains(tile_cache, CacheKey(EndpointName(endpoint), tile))
    /\ Commit(i, get_tile(State([NewRequest("tile", endpoint, tile) EXCEPT
                                   !.passthrough = passthrough]), lapse))
    /\ started' = started + 1

\* GET /bounds/{endpoint}
BoundsRequest(i, ep) ==
    /\ Free(i)
    /\ started < MaxRequests
    /\ Commit(i, get_bounds(State(NewRequest("bounds", ep, Tile(0, 0, 0)))))
    /\ started' = started + 1

\* the WMTS server answers the GetCapabilities request of slot i
CapabilitiesAnswer(i, answer) ==
    /\ req[i].pc = "caps"
    /\ Commit(i, OnCapabilities(State(req[i]), answer))
    /\ UNCHANGED started

\* the CRS-info service answers the lookups of slot i
CrsAnswer(i, answer) ==
    /\ req[i].pc = "crs"
    /\ Commit(i, OnCrs(State(req[i]), answer))
    /\ UNCHANGED started

\* the tile server answers the GetTile request of slot i
TileAnswer(i, answer) ==
    /\ req[i].pc = "fetch"
    /\ Commit(i, OnTile(State(req[i]), answer))
    /\ UNCHANGED started

\* a request in flight that clear_cache overtakes
Overtaken(r) == IF r.kind = "idle" THEN r ELSE [r EXCEPT !.stale = TRUE]

\* the objects that outlive a clear_cache call
Outlived(heap) == [k \in DOMAIN heap |-> [heap[k] EXCEPT !.stale = TRUE]]

\* clear_cache without transformers.clear()
clear_cache_KeepsTransformers ==
    /\ clients' = {}
    /\ tile_cache' = <<>>
    /\ req' = [j \in Slots |-> Overtaken(Forget(req[j]))]
    /\ objs' = Outlived(Live(transformers, req', objs))
    /\ just_cleared' = TRUE
    /\ UNCHANGED probe
    /\ UNCHANGED <<transformers, capabilities_cache, crs_cache, started>>

\* POST /cache/clear
clear_cache ==
    /\ transformers' = [n \in {} |-> <<>>]
    /\ clients' = {}
    /\ tile_cache' = <<>>
    /\ req' = [j \in Slots |-> Overtaken(Forget(req[j]))]
    /\ objs' = Outlived(Live(transformers', req', objs))
    /\ just_cleared' = TRUE
    /\ UNCHANGED probe
    /\ UNCHANGED <<capabilities_cache, crs_cache, started>>

\* the TTL of the oldest entry of the tile cache runs out
Expire ==
    /\ tile_cache # <<>>
    /\ tile_cache' = Tail(tile_cache)
    /\ req' = [j \in Slots |-> Forget(req[j])]
    /\ just_cleared' = FALSE
    /\ UNCHANGED probe
    /\ UNCHANGED <<transformers, clients, objs, capabilities_cache, crs_cache,
                   started>>

Next ==
    \/ \E i \in Slots, rq \in TileRequests, lapse \in BOOLEAN :
          TileRequest(i, rq[1], rq[2], rq[3], lapse)
    \/ \E i \in Slots, ep \in BoundsRequests : BoundsRequest(i, ep)
    \/ \E i \in Slots, answer \in CapabilitiesAnswers : CapabilitiesAnswer(i, answer)
    \/ \E i \in Slots, answer \in CrsAnswers : CrsAnswer(i, answer)
    \/ \E i \in Slots, answer \in TileAnswers : TileAnswer(i, answer)
    \/ clear_cache
    \/ Expire

Spec == Init /\ [][Next]_vars

\* one more tile request of the transformed endpoint, after the MaxRequests
\* requests of Next, with or without passthrough=true
FollowUp(i, passthrough) ==
    /\ Free(i)
    /\ started = MaxRequests
    /\ Commit(i, get_tile(State([NewRequest("tile", "latvia", Tile(10, 580, 316)) EXCEPT
                                   !.passthrough = passthrough]), FALSE))
    /\ started' = started + 1

NextFollowUp ==
    \/ Next
    \/ \E i \in Slots, passthrough \in BOOLEAN : FollowUp(i, passthrough)

SpecFollowUp == Init /\ [][NextFollowUp]_vars

\* a tile on the equator at 88 degrees east, 64 degrees from the central
\* meridian of LKS-92: its northing is about -6045 km and its easting about
\* 9898 km, so that on the fallback geometry (origin (0, 0), 156.5 km tiles
\* at zoom 10) its cell is column 63, row 38, inside the limit table, and on
\* the geometry of the capabilities it is column 4514, row 3023, outside
FarTile == Tile(10, 762, 512)

\* GET /tiles/10/762/512?endpoint=latvia up to its first await
FarRequest(i, lapse) ==
    /\ Free(i)
    /\ started < MaxRequests
    /\ lapse => CacheContains(tile_cache, CacheKey("latvia", FarTile))
    /\ Commit(i, get_tile(State(NewRequest("tile", "latvia", FarTile)), lapse))
    /\ started' = started + 1

\* the service with requests for the far tile and for the bounds only
NextFar ==
    \/ \E i \in Slots, lapse \in BOOLEAN : FarRequest(i, lapse)
    \/ \E i \in Slots, ep \in BoundsRequests : BoundsRequest(i, ep)
    \/ \E i \in Slots, answer \in CapabilitiesAnswers : CapabilitiesAnswer(i, answer)
    \/ \E i \in Slots, answer \in CrsAnswers : CrsAnswer(i, answer)
    \/ \E i \in Slots, answer \in TileAnswers : TileAnswer(i, answer)
    \/ clear_cache
    \/ Expire

SpecFar == Init /\ [][NextFar]_vars

\* ---------------------------------------------------------------------
\* Single functions, called on their own with arguments drawn from small
\* sets: probe holds the arguments and, once the call returned, the result
\* ---------------------------------------------------------------------

MaxTilesPerWmtsTile == 3
MaxCoordinate == 6

\* projected coordinates, half a Leaflet tile apart at pixel size 3
Coordinates == {384 * n : n \in -MaxCoordinate..MaxCoordinate}

\* the values transform_tile computes with after the projection: the centre,
\* finite or not, and the geometry of a matrix of tiles 256*k pixels wide
CellCalls ==
    [fn : {"transform_tile"},
     center : (Coordinates \X Coordinates) \cup {NonFinite},
     m : [pixel_size : {3},
          origin : {<<0, 0>>, <<-100, 1000>>},
          tile_width : {256 * k : k \in 1..MaxTilesPerWmtsTile},
          tile_height : {256 * k : k \in 1..MaxTilesPerWmtsTile}],
     result : {Null}]

Call(fn) ==
    /\ probe # Null
    /\ probe.fn = fn
    /\ probe.result = Null
    /\ UNCHANGED <<tile_cache, transformers, clients, objs, capabilities_cache,
                   crs_cache, req, just_cleared, started>>

\* transform_tile from the projected centre to the return
CallCellInMatrix ==
    /\ Call("transform_tile")
    /\ probe' = [probe EXCEPT !.result = CellInMatrix(<<"probe", "0">>, probe.center, probe.m)]

\* static scale tables over some of the zooms 7, 10 and 12, none included
GeometryScales ==
    {[z \in D |-> 1000 * (20 - z)] : D \in SUBSET {7, 10, 12}}

\* a transformer of CRS 3059 with the server's matrix set (zooms 7, 10, 18)
\* loaded or not, a configuration with or without origin and scale table,
\* and a clamped zoom
GeometryCalls ==
    [fn : {"geometry"},
     o : [target_crs : {3059},
          tile_matrix_set : {Null, parse_tile_matrix_set(CapabilitiesDoc("full"), "LKS_LVM")}],
     cfg : [origin : {NoPoint, <<-500000, 600000>>},
            tile_matrix_scales : GeometryScales],
     zoom_level : {7, 10, 12, 13},
     result : {Null}]

\* transform_tile from get_tile_matrix to the fallback parameters
CallMatrixGeometry ==
    /\ Call("geometry")
    /\ probe' = [probe EXCEPT !.result =
                    MatrixGeometry(probe.o, probe.cfg, probe.zoom_level,
                                   get_tile_matrix(probe.o, probe.zoom_level))]

MaxMatrices == 2

\* SupportedCRS strings, split at their colons
SupportedCrsStrings ==
    {<<"urn", "ogc", "def", "crs", "EPSG", "", "3059">>,
     <<"urn", "ogc", "def", "crs", "EPSG", "6.18", "3", "3059">>,
     <<"urn", "ogc", "def", "crs", "EPSG", "6.18.3", "3857">>,
     <<"urn", "ogc", "def", "crs", "OGC", "1.3", "CRS84">>,
     <<"EPSG", "3857">>}

\* TileMatrix identifiers, split at their colons
MatrixIdentifiers ==
    {<<"LKS_LVM", "10">>, <<"LKS_LVM", "7">>, <<"EPSG", "3857", "10">>,
     <<"EPSG", "3857", "7">>, <<"10">>}

\* a TileMatrixSet element of up to MaxMatrices TileMatrix children
ParseCalls ==
    [fn : {"parse"},
     elem : [supported_crs : SupportedCrsStrings,
             matrices : UNION {[1..n -> {[ServerTileMatrix("LKS_LVM", 10) EXCEPT
                                            !.identifier = id] : id \in MatrixIdentifiers}] :
                               n \in 1..MaxMatrices}],
     result : {Null}]

CallParseTileMatrixSet ==
    /\ Call("parse")
    /\ probe' = [probe EXCEPT !.result = _parse_tile_matrix_set_element("probe", probe.elem)]

ProbeCalls == CellCalls \cup GeometryCalls \cup ParseCalls

InitProbe ==
    /\ Imported
    /\ probe \in ProbeCalls

NextProbe ==
    \/ CallCellInMatrix
    \/ CallMatrixGeometry
    \/ CallParseTileMatrixSet

SpecProbe == InitProbe /\ [][NextProbe]_vars

\* the call of fn returned or raised
Returned(fn) == probe # Null /\ probe.fn = fn /\ probe.result # Null

\* C21: whenever transform_tile returns a cell for a matrix whose tiles are
\* 256*k pixels wide, quadrant_x and quadrant_y are both in 0..k-1,
\* wherever the projected centre lies relative to the matrix origin
C21_QuadrantsInRange ==
    Returned("transform_tile") /\ ~Raised(probe.result)
    => /\ probe.result.quadrant_x \in 0..(probe.m.tile_width \div 256 - 1)
       /\ probe.result.quadrant_y \in 0..(probe.m.tile_width \div 256 - 1)

\* a centre left of and above the origin, in a matrix of three Leaflet tiles
\* per tile side
C21_Witness ==
    /\ Returned("transform_tile") /\ ~Raised(probe.result)
    /\ probe.m.tile_width = 768
    /\ probe.center[1] < probe.m.origin[1]
    /\ probe.center[2] > probe.m.origin[2]
    /\ probe.result.quadrant_x = 0
    /\ probe.result.quadrant_y = 0

----------------------------------------------------------------------------
(* What the claims speak about, stated on the configuration and not on the *)
(* operators of the code                                                   *)

SystemOf(ep) == WMTS_ENDPOINTS[ep].coordinate_system

Configured(r) == r.kind = "tile" /\ r.ep \in DOMAIN WMTS_ENDPOINTS

Passthrough(r) == Configured(r) /\ SystemOf(r.ep) = "WebMercatorQuad"

Transforming(r) == Configured(r) /\ SystemOf(r.ep) # "WebMercatorQuad"

\* the tile is outside the declared range of client tiles
OutOfRange(t) ==
    \/ t.z < 0 \/ t.z > 20
    \/ t.x < 0 \/ t.x > 2 ^ t.z - 1
    \/ t.y < 0 \/ t.y > 2 ^ t.z - 1

\* z clamped into the zoom range of the system of endpoint ep
ResolvedZoom(ep, z) ==
    LET lo == COORDINATE_SYSTEMS[SystemOf(ep)].min_zoom
        hi == COORDINATE_SYSTEMS[SystemOf(ep)].max_zoom
    IN IF z < lo THEN lo ELSE IF z > hi THEN hi ELSE z

\* the cell lies in the window of the limit table at that zoom
InWindow(zoom, cell) ==
    /\ zoom \in DOMAIN LKS_LVM_TILE_LIMITS
    /\ cell.tile_col \in LKS_LVM_TILE_LIMITS[zoom].min_col..LKS_LVM_TILE_LIMITS[zoom].max_col
    /\ cell.tile_row \in LKS_LVM_TILE_LIMITS[zoom].min_row..LKS_LVM_TILE_LIMITS[zoom].max_row

NoNetwork(r) == r.n_caps = 0 /\ r.n_crs = 0 /\ r.n_tile = 0

Answered(r) == r.pc = "done"

\* the step is the start of a tile request in slot i
Starts(i) == started' = started + 1 /\ req'[i].kind = "tile" /\ req[i].pc \in {"idle", "done"}

----------------------------------------------------------------------------
(* C1: a failed capabilities fetch or parse never raises into the request  *)
(* path: whenever the answer to GetCapabilities of a request was a         *)
(* failure, load_wmts_parameters returned normally, and a tile request     *)
(* that is answered after it has a transform_tile result.                  *)
C1_CapabilitiesFailureAbsorbed ==
    \A i \in Slots :
        req[i].caps_answer \in {"error", "no_matrix_set"}
        => /\ req[i].load # "raised"
           /\ (Answered(req[i]) /\ req[i].kind = "tile") => req[i].t1 # Null

(* C2: on every transformed system is_valid_tile is true exactly when the  *)
(* tile is in range and the cell transform_tile produced lies in the       *)
(* window of the zoom transform_tile resolved.                             *)
C2_ValidIffInWindow ==
    \A i \in Slots :
        (Transforming(req[i]) /\ req[i].t1 # Null /\ req[i].valid # "unknown")
        => (req[i].valid = "true"
            <=> (~OutOfRange(req[i].tile)
                 /\ InWindow(ResolvedZoom(req[i].ep, req[i].tile.z), req[i].t1)))

(* C3: a tile out of range is answered 400 before any network request:     *)
(* the request has issued no GetCapabilities, no CRS lookup and no GetTile. *)
C3_OutOfRangeRejectedOffline ==
    \A i \in Slots :
        (Configured(req[i]) /\ OutOfRange(req[i].tile))
        => /\ Answered(req[i]) /\ req[i].status = 400
           /\ req[i].valid # "true"
           /\ NoNetwork(req[i])

C3_Witness ==
    \E i \in Slots :
        /\ Transforming(req[i]) /\ req[i].tile = Tile(10, 2000, 0)
        /\ Answered(req[i]) /\ req[i].status = 400 /\ NoNetwork(req[i])

C5_FetchOnlyInsideWindow ==
    \A i \in Slots :
        (Transforming(req[i]) /\ req[i].n_tile > 0)
        => /\ req[i].t2 # Null
           /\ InWindow(ResolvedZoom(req[i].ep, req[i].tile.z), req[i].t2)

C5_Witness ==
    \E i \in Slots :
        /\ Transforming(req[i]) /\ req[i].n_tile > 0
        /\ req[i].t2.tile_matrix = <<"LKS_LVM", "10">>

(* C6: on the passthrough system transform_tile returns (str(z), x, y)     *)
(* and quadrant (0, 0), and the request has fetched no capabilities and    *)
(* looked up no CRS, whatever the state of the transformer.                *)
C6_PassthroughIdentity ==
    \A i \in Slots :
        (Passthrough(req[i]) /\ ~OutOfRange(req[i].tile) /\ ~req[i].hit)
        => /\ req[i].t2 = [tile_matrix |-> <<ToString(req[i].tile.z)>>,
                           tile_col |-> req[i].tile.x, tile_row |-> req[i].tile.y,
                           quadrant_x |-> 0, quadrant_y |-> 0]
           /\ req[i].n_caps = 0 /\ req[i].n_crs = 0

C6_Witness ==
    \E i \in Slots :
        /\ Passthrough(req[i]) /\ req[i].pc = "fetch"
        /\ req[i].t2.tile_col = 580 /\ req[i].t2.tile_row = 316
        /\ objs[req[i].tr].tile_matrix_set # Null
        /\ objs[req[i].tr].target_crs # NoEpsg

C7_WitnessAbove ==
    \E i \in Slots :
        /\ req[i].ep = "latvia" /\ req[i].tile.z = 20
        /\ req[i].t1 # Null /\ req[i].t1.tile_matrix = <<"LKS_LVM", "18">>

\* the bytes the tile cache holds for a tile of an endpoint
Stored(cache, ep, tile) ==
    {cache[k][2] : k \in {j \in 1..Len(cache) : cache[j][1] = <<ep, tile.z, tile.x, tile.y>>}}

(* C8: a tile request that finds its key in the tile cache, the entry not  *)
(* lapsing under it, is answered at once with exactly the stored bytes,    *)
(* without any upstream request and without a change of the cache; a       *)
(* request that does not find its key is no hit, and issues GetTile when   *)
(* it is a well-formed passthrough tile; a stored tile is what the cache   *)
(* then holds for its key; and clear_cache leaves no key.                  *)
C8_CacheRoundTrip ==
    [][/\ \A i \in Slots :
            Starts(i) =>
                LET r == req'[i]
                    held == Stored(tile_cache, r.ep, r.tile)
                IN /\ (held # {} /\ r.error # "KeyError")
                      => /\ Answered(r) /\ r.status = 200 /\ r.hit
                         /\ r.body \in held
                         /\ NoNetwork(r)
                         /\ tile_cache' = tile_cache
                   /\ held = {}
                      => /\ ~r.hit
                         /\ (Passthrough(r) /\ ~OutOfRange(r.tile))
                            => (r.pc = "fetch" /\ r.n_tile = 1)
       /\ \A i \in Slots :
            (req[i].pc = "fetch" /\ req'[i].pc = "done" /\ req'[i].status = 200)
            => Stored(tile_cache', req'[i].ep, req'[i].tile) = {req'[i].body}
       /\ just_cleared' => tile_cache' = <<>>
      ]_vars

C8_Witness ==
    \E i \in Slots :
        /\ req[i].kind = "tile" /\ req[i].hit /\ Answered(req[i])
        /\ req[i].status = 200 /\ req[i].body \in Stored(tile_cache, req[i].ep, req[i].tile)
        /\ NoNetwork(req[i])

(* C9: when clear_cache returns, the tile cache, the transformer registry, *)
(* the client registry and the capabilities cache of the process are all   *)
(* empty.                                                                  *)
C9_ClearEmptiesEveryCache ==
    just_cleared
    => /\ tile_cache = <<>>
       /\ DOMAIN transformers = {}
       /\ clients = {}
       /\ DOMAIN capabilities_cache = {}

(* C10: a tile request on an endpoint whose system names a WMTS source,    *)
(* with no clear_cache since its start, is bound to a transformer that was *)
(* constructed after the latest clear_cache; and when a request has a      *)
(* transform result, its transformer has since its construction taken an   *)
(* answer to GetCapabilities and set up its projection.                    *)
C10_FreshTransformerAfterClear ==
    \A i \in Slots :
        (/\ Transforming(req[i])
         /\ COORDINATE_SYSTEMS[SystemOf(req[i].ep)].wmts_url # None
         /\ req[i].tr # <<>>)
        => /\ ~req[i].stale => ~objs[req[i].tr].stale
           /\ req[i].t1 # Null
              => /\ objs[req[i].tr].fetched
                 /\ objs[req[i].tr].target_crs # NoEpsg

\* a request from before the clear still holds the old transformer of the
\* endpoint while a request from after it fetches on a new one
C10_Witness ==
    \E i, j \in Slots :
        /\ req[j].ep = "latvia" /\ req[j].stale /\ req[j].tr # <<>>
        /\ objs[req[j].tr].stale
        /\ req[i].ep = "latvia" /\ ~req[i].stale
        /\ req[i].pc = "fetch" /\ req[i].t2 # Null /\ req[i].n_caps > 0
        /\ req[i].tr # req[j].tr
        /\ ~objs[req[i].tr].stale /\ objs[req[i].tr].fetched

----------------------------------------------------------------------------
\* the GetCapabilities requests slot i had issued before the step
IssuedBefore(i) == IF req[i].pc \in {"idle", "done"} THEN 0 ELSE req[i].n_caps

\* the step issues a GetCapabilities request for slot i
IssuesGetCapabilities(i) == req'[i].pc = "caps" /\ req'[i].n_caps # IssuedBefore(i)

\* the keys of the capabilities cache for the system of a transformer
LayerKey(o) == <<COORDINATE_SYSTEMS[o.target_system].wmts_url, "layer", COORDINATE_SYSTEMS[o.target_system].layer_id>>

MatrixSetKey(o) == <<COORDINATE_SYSTEMS[o.target_system].wmts_url, "tms", COORDINATE_SYSTEMS[o.target_system].tile_matrix_set_id>>

\* one of the capabilities answers the transformer received held its tile
\* matrix set
HadMatrixSet(o) == \E a \in o.docs : parse_tile_matrix_set(CapabilitiesDoc(a), COORDINATE_SYSTEMS[o.target_system].tile_matrix_set_id) # Null

(* C11: a call of get_wmts_info issues exactly one GetCapabilities request *)
(* and a result it returned is stored under its own key of the             *)
(* capabilities cache, the layer under the layer key and the matrix set    *)
(* under the matrix-set key; and no request issues GetCapabilities on a    *)
(* transformer that had loaded its tile matrix set, unless clear_cache ran *)
(* since the transformer was made.                                         *)
C11_FetchedOncePerEndpoint ==
    [][\A i \in Slots :
         /\ IssuesGetCapabilities(i)
              => /\ req'[i].n_caps = IssuedBefore(i) + 1
                 /\ HadMatrixSet(objs'[req'[i].tr]) => objs'[req'[i].tr].stale
         /\ \A k \in DOMAIN objs' :
              /\ objs'[k].layer_info # Null
                   => /\ LayerKey(objs'[k]) \in DOMAIN capabilities_cache'
                      /\ capabilities_cache'[LayerKey(objs'[k])] = objs'[k].layer_info
              /\ objs'[k].tile_matrix_set # Null
                   => /\ MatrixSetKey(objs'[k]) \in DOMAIN capabilities_cache'
                      /\ capabilities_cache'[MatrixSetKey(objs'[k])] = objs'[k].tile_matrix_set]_vars

----------------------------------------------------------------------------
\* the request of slot i after the step that starts it was refused on the
\* spot with that status, without an upstream request, without a
\* transformer, and with the tile cache and both registries as they were
RefusedUntouched(i, status) ==
    /\ req'[i].pc = "done" /\ req'[i].status = status
    /\ NoNetwork(req'[i]) /\ req'[i].tr = <<>> /\ ~req'[i].hit
    /\ tile_cache' = tile_cache
    /\ transformers' = transformers
    /\ clients' = clients

(* C12 as stated: a tile request whose endpoint parameter is no key of     *)
(* WMTS_ENDPOINTS is answered 500 in the step that starts it, is served    *)
(* through no transformer, issues no upstream request and leaves the tile  *)
(* cache and both registries unchanged.                                    *)
C12_UnknownEndpointFails ==
    [][\A i \in Slots :
         (Starts(i) /\ req'[i].endpoint \notin DOMAIN WMTS_ENDPOINTS)
            => RefusedUntouched(i, 500)]_vars

(* C12 amended: the same for a name that is not empty and for coordinates  *)
(* that are not negative; with a negative coordinate the request is        *)
(* answered 400 instead, as untouched; the empty name is the default       *)
(* endpoint.                                                               *)
C12_UnknownNonEmptyEndpointFails ==
    [][\A i \in Slots :
         (Starts(i) /\ req'[i].endpoint \notin DOMAIN WMTS_ENDPOINTS)
            => IF req'[i].endpoint = ""
               THEN req'[i].ep = DEFAULT_ENDPOINT
               ELSE IF req'[i].tile.z < 0 \/ req'[i].tile.x < 0 \/ req'[i].tile.y < 0
                    THEN RefusedUntouched(i, 400)
                    ELSE RefusedUntouched(i, 500)]_vars

\* a well-formed tile of an unknown endpoint was answered 500 while the
\* registries hold the transformer of a known endpoint
C12_Witness ==
    \E i \in Slots :
        /\ req[i].kind = "tile" /\ req[i].endpoint = "nonexistent"
        /\ req[i].tile = Tile(10, 580, 316)
        /\ req[i].pc = "done" /\ req[i].status = 500 /\ req[i].error = "ValueError"
        /\ DOMAIN transformers # {}

----------------------------------------------------------------------------
\* the answers to GetTile that are no image of status 200
TileFailures == {"http_error", "not_image", "transport_error"}

(* C13: when the answer to the GetTile request of a tile request is a      *)
(* status other than 200, a content type that is no image or a transport   *)
(* failure, fetch_tile returns None without raising, the request is        *)
(* answered 404 and the step leaves the tile cache as it was.              *)
C13_UpstreamFailureIsNotFound ==
    [][\A i \in Slots :
         (req[i].pc = "fetch" /\ req'[i].pc = "done" /\ req'[i].tile_answer \in TileFailures)
            => /\ req'[i].status = 404 /\ req'[i].body = Null
               /\ req'[i].error = None
               /\ tile_cache' = tile_cache]_vars

\* a GetTile answer that is no image was answered 404 and its key is not in
\* the tile cache
C13_Witness ==
    \E i \in Slots :
        /\ req[i].pc = "done" /\ req[i].tile_answer = "not_image"
        /\ req[i].ep = "latvia" /\ req[i].n_tile = 1 /\ req[i].status = 404
        /\ ~CacheContains(tile_cache, CacheKey(req[i].ep, req[i].tile))

----------------------------------------------------------------------------
(* C14: the failure of GetCapabilities is the only exception a tile        *)
(* request absorbs: no other exception is turned into an answer below the  *)
(* handler of the route, and a request whose GetTile answer is an image    *)
(* that cannot be decoded is answered 500.                                 *)
C14_OnlyCapabilitiesFailureAbsorbed ==
    \A i \in Slots :
        /\ req[i].absorbed \in {None, "HTTPError"}
        /\ (req[i].pc = "done" /\ req[i].tile_answer = "raw") => req[i].status = 500

----------------------------------------------------------------------------
(* C15: a tile request issues at most one GetTile request: it has issued   *)
(* exactly one while it waits for the answer, the answer ends the request  *)
(* whatever it is, and after a failed answer the request has ended with an *)
(* error status and no body.                                               *)
C15_AtMostOneGetTile ==
    \A i \in Slots :
        /\ req[i].n_tile \in {0, 1}
        /\ req[i].pc = "fetch" => (req[i].n_tile = 1 /\ req[i].tile_answer = "")
        /\ req[i].tile_answer # "" => (req[i].pc = "done" /\ req[i].n_tile = 1)
        /\ req[i].tile_answer \in TileFailures
             => (req[i].status >= 400 /\ req[i].body = Null)

\* a request of the passthrough endpoint ended with 404 after one GetTile
\* request that the transport failed
C15_Witness ==
    \E i \in Slots :
        /\ req[i].ep = "latvia_webmercator" /\ req[i].pc = "done"
        /\ req[i].tile_answer = "transport_error"
        /\ req[i].n_tile = 1 /\ req[i].status = 404

----------------------------------------------------------------------------
\* the entries the cache holds under the key of the request
EntriesOf(cache, r) == {j \in 1..Len(cache) : cache[j][1] = CacheKey(r.ep, r.tile)}

\* the step is the answer to the GetTile request of slot i, and the request
\* stores and returns its tile
StoresTile(i) == req[i].pc = "fetch" /\ req'[i].pc = "done" /\ req'[i].status = 200

(* C16: when a tile request stores its tile, the tile cache then holds one *)
(* entry under its key, with the bytes the request returns; and when the   *)
(* key had been stored meanwhile by a concurrent request that missed as    *)
(* well and got the same answer from upstream, the bytes the cache held    *)
(* are the bytes this request returns.                                     *)
C16_ConcurrentMissesStoreSameBytes ==
    [][\A i \in Slots :
         StoresTile(i)
            => /\ Cardinality(EntriesOf(tile_cache', req'[i])) = 1
               /\ CacheGet(tile_cache', CacheKey(req'[i].ep, req'[i].tile)) = req'[i].body
               /\ \A j \in EntriesOf(tile_cache, req[i]) :
                     tile_cache[j][2].image = req'[i].tile_answer
                        => tile_cache[j][2] = req'[i].body]_vars

\* two requests of one key both missed and both issued GetTile; one was
\* answered and stored its tile, which is in the cache while the other
\* still waits for its answer
C16_Witness ==
    \E i, j \in Slots :
        /\ i # j
        /\ req[i].kind = "tile" /\ req[j].kind = "tile"
        /\ req[i].ep = "latvia" /\ req[j].ep = "latvia" /\ req[i].tile = req[j].tile
        /\ ~req[i].hit /\ ~req[j].hit
        /\ req[i].n_tile = 1 /\ req[j].n_tile = 1
        /\ req[i].pc = "done" /\ req[i].status = 200 /\ req[i].tile_answer = "png"
        /\ req[j].pc = "fetch"
        /\ EntriesOf(tile_cache, req[j]) # {}
        /\ CacheGet(tile_cache, CacheKey(req[j].ep, req[j].tile)) = req[i].body

----------------------------------------------------------------------------
\* a serial execution: what one get_wmts_info call returns for the answer
\* on a process that fetched nothing before
SerialInfo(cfg, answer) == get_wmts_info([k \in {} |-> Null], answer, cfg.wmts_url, IF cfg.layer_id # None THEN cfg.layer_id ELSE "unknown", cfg.tile_matrix_set_id)

\* the transformer of the system after one load_wmts_parameters call that
\* received the one answer of docs, or after none
SerialLoad(system, docs) ==
    IF docs = {}
    THEN NewTransformer(system)
    ELSE AssignCapabilities(NewTransformer(system),
                            SerialInfo(COORDINATE_SYSTEMS[system], CHOOSE a \in docs : TRUE))

\* and after its projection was set up
SerialInitialized(o) == _initialize_crs(o, TargetEpsg(o), TRUE)

\* the serial transformers, by system and answers
SerialTransformer ==
    [system \in DOMAIN COORDINATE_SYSTEMS |->
       [docs \in {{}, {"no_matrix_set"}, {"full"}} |->
          SerialInitialized(SerialLoad(system, docs))]]

\* the capabilities answers the transformer received were one document
OneDocument(o) == Cardinality(o.docs) <= 1

\* the transformer is loaded as the serial one
LoadedAs(o, serial) ==
    /\ o.tile_matrix_set = serial.tile_matrix_set
    /\ o.layer_info = serial.layer_info
    /\ o.bounds = serial.bounds
    /\ o.target_crs \in {NoEpsg, serial.target_crs}

\* the results of the request are the given cell
ResultsAre(r, cell) ==
    /\ r.t1 # Null => r.t1 = cell
    /\ r.t2 # Null => r.t2 = cell

(* C17: when every capabilities answer a transformer received was the same *)
(* document, however many requests fetched it and set up the projection    *)
(* and in whatever order they were resumed, the tile matrix set, the layer *)
(* information, the bounds and the CRS of the transformer are those of a   *)
(* serial execution, and so is every transform_tile result of a request    *)
(* that uses the transformer.                                              *)
C17_ConcurrentLoadIdempotent ==
    /\ \A k \in DOMAIN objs :
          OneDocument(objs[k])
             => LoadedAs(objs[k], SerialTransformer[objs[k].target_system][objs[k].docs])
    /\ \A i \in Slots :
          (req[i].kind = "tile" /\ req[i].tr # <<>> /\ OneDocument(objs[req[i].tr])
           /\ (req[i].t1 # Null \/ req[i].t2 # Null))
             => ResultsAre(req[i],
                           IF IsPassthrough(objs[req[i].tr])
                           THEN PassthroughCell(req[i].tile)
                           ELSE TransformCell(SerialTransformer[objs[req[i].tr].target_system][objs[req[i].tr].docs], req[i].tile))

\* two requests of the transformed endpoint each fetched the capabilities
\* and each looked the CRS up, on one transformer, and both have their
\* transform_tile result
C17_Witness ==
    \E i, j \in Slots :
        /\ i # j /\ req[i].ep = "latvia" /\ req[j].ep = "latvia"
        /\ req[i].tr = req[j].tr
        /\ req[i].n_caps = 1 /\ req[j].n_caps = 1
        /\ req[i].caps_answer = "full" /\ req[j].caps_answer = "full"
        /\ req[i].n_crs > 0 /\ req[j].n_crs > 0
        /\ req[i].t2 # Null /\ req[j].t2 # Null
        /\ objs[req[i].tr].docs = {"full"}

----------------------------------------------------------------------------
(* C18: a tile request with passthrough=true on a configured endpoint is   *)
(* served without coordinate transformation: the cell of its GetTile       *)
(* request is (str(z), x, y), whatever the coordinate system of the        *)
(* endpoint.                                                               *)
C18_PassthroughParameter ==
    \A i \in Slots :
        (Configured(req[i]) /\ req[i].passthrough /\ req[i].n_tile > 0)
           => req[i].t2 = PassthroughCell(req[i].tile)

----------------------------------------------------------------------------
\* a bounds request that was answered with bounds
BoundsAnswered(r) == r.kind = "bounds" /\ r.pc = "done" /\ r.status = 200

\* the hard-coded coverage of LKS_LVM, (25.1, 55.6, 32.3, 58.1)
HardCodedCoverage == <<251000, 556000, 323000, 581000>>

\* the transformer holds the bounding box the server advertises for the layer
BoxAvailable(o) == o.layer_info # Null /\ o.layer_info.wgs84_bounding_box # NoPoint

\* one of the capabilities answers the transformer received held both the
\* tile matrix set and the bounding box of the layer
LoadedWithBox(o) ==
    \E a \in o.docs :
        /\ SerialInfo(COORDINATE_SYSTEMS[o.target_system], a).tile_matrix_set # Null
        /\ SerialInfo(COORDINATE_SYSTEMS[o.target_system], a).layer_info # Null
        /\ SerialInfo(COORDINATE_SYSTEMS[o.target_system], a).layer_info.wgs84_bounding_box # NoPoint

\* the bounds in the answer of the request are the given ones
BoundsAre(r, bounds) == r.body = [bounds |-> bounds]

(* C19 as stated: the bounds get_bounds returns are the hard-coded         *)
(* coverage for LKS_LVM; for every other system they are the advertised    *)
(* bounding box of the layer once the transformer holds it, and the        *)
(* configured bounds before.                                               *)
C19_BoundsFollowLayerBox ==
    \A i \in Slots :
        BoundsAnswered(req[i])
           => BoundsAre(req[i],
                        IF objs[req[i].tr].target_system = "LKS_LVM"
                        THEN HardCodedCoverage
                        ELSE IF BoxAvailable(objs[req[i].tr])
                             THEN objs[req[i].tr].layer_info.wgs84_bounding_box
                             ELSE COORDINATE_SYSTEMS[objs[req[i].tr].target_system].bounds)

(* C19 amended: for every other system than LKS_LVM they are the           *)
(* advertised bounding box of the layer once a capabilities answer gave    *)
(* the transformer both its tile matrix set and that box, and the          *)
(* configured bounds before.                                               *)
C19_BoundsFollowLoadedLayerBox ==
    \A i \in Slots :
        BoundsAnswered(req[i])
           => BoundsAre(req[i],
                        IF objs[req[i].tr].target_system = "LKS_LVM"
                        THEN HardCodedCoverage
                        ELSE IF LoadedWithBox(objs[req[i].tr])
                             THEN ServerLayerBBox
                             ELSE COORDINATE_SYSTEMS[objs[req[i].tr].target_system].bounds)

\* a bounds request of the passthrough endpoint was answered with the box
\* the server advertises, which is not the configured one
C19_Witness ==
    \E i \in Slots :
        /\ BoundsAnswered(req[i]) /\ req[i].ep = "latvia_webmercator"
        /\ req[i].caps_answer = "full"
        /\ BoundsAre(req[i], ServerLayerBBox)
        /\ ServerLayerBBox # COORDINATE_SYSTEMS["WebMercatorQuad"].bounds

----------------------------------------------------------------------------
\* floor of the quotient of two integers, the divisor positive
Floor(a, b) == a \div b

\* column and row of the projected centre by the floor formula, in the
\* geometry m of the matrix
FloorCell(center, m) ==
    [tile_col |-> Floor(center[1] - m.origin[1], m.tile_width * m.pixel_size),
     tile_row |-> Floor(m.origin[2] - center[2], m.tile_height * m.pixel_size)]

\* the geometry transform_tile uses on the transformer at the clamped zoom
GeometryAt(o, cfg, zoom_level) == MatrixGeometry(o, cfg, zoom_level, get_tile_matrix(o, zoom_level))

\* the floor cell of a tile on the serial transformer
FloorCellOf(serial, tile) ==
    FloorCell(ProjectedCenter(serial.target_crs, tile),
              GeometryAt(serial, COORDINATE_SYSTEMS[serial.target_system],
                         ZoomLevel(COORDINATE_SYSTEMS[serial.target_system], tile.z)))

(* C20: on the transformed path the column of the upstream cell is         *)
(* floor((cx - originX) / tileSizeX) and its row is                        *)
(* floor((originY - cy) / tileSizeY), for every projected centre (cx, cy), *)
(* also where a quotient is negative.                                      *)
C20_CellIsFloor ==
    \A i \in Slots :
        (Transforming(req[i]) /\ req[i].t1 # Null /\ OneDocument(objs[req[i].tr]))
           => /\ req[i].t1.tile_col = FloorCellOf(SerialTransformer[objs[req[i].tr].target_system][objs[req[i].tr].docs], req[i].tile).tile_col
              /\ req[i].t1.tile_row = FloorCellOf(SerialTransformer[objs[req[i].tr].target_system][objs[req[i].tr].docs], req[i].tile).tile_row


\* the geometry of a call found the matrix of the zoom in the loaded set
Dynamic == get_tile_matrix(probe.o, probe.zoom_level) # Null

\* the fallback geometry of a scale denominator
StaticGeometry(scale_denominator) ==
    [pixel_size |-> ScaleToPixel(probe.o.target_crs, scale_denominator),
     origin |-> probe.cfg.origin, tile_width |-> 512, tile_height |-> 512]

\* C22: the matrix geometry of a clamped zoom is resolved without failure:
\* from the loaded matrix of the zoom when there is one, and otherwise, for a
\* configuration with a static scale table and origin, from the entry of
\* the exact zoom when the table has it, with tile size 512x512 and the
\* configured origin
C22_GeometryResolved ==
    Returned("geometry")
    => /\ ~Raised(probe.result)
       /\ Dynamic
          => probe.result =
               [pixel_size |-> ScaleToPixel(probe.o.target_crs,
                                 get_tile_matrix(probe.o, probe.zoom_level).scale_denominator),
                origin |-> get_tile_matrix(probe.o, probe.zoom_level).top_left_corner,
                tile_width |-> get_tile_matrix(probe.o, probe.zoom_level).tile_width,
                tile_height |-> get_tile_matrix(probe.o, probe.zoom_level).tile_height]
       /\ /\ ~Dynamic
          /\ probe.cfg.origin # NoPoint
          /\ probe.zoom_level \in DOMAIN probe.cfg.tile_matrix_scales
          => probe.result = StaticGeometry(probe.cfg.tile_matrix_scales[probe.zoom_level])

\* int() of the part after the last colon
Last(parts) == parts[Len(parts)]

\* the matrices of the element whose identifier has a colon and ends with an integer
ZoomSuffixed ==
    {i \in 1..Len(probe.elem.matrices) :
       /\ Len(probe.elem.matrices[i].identifier) > 1
       /\ IsIntToken(Last(probe.elem.matrices[i].identifier))}

\* C23: a parsed tile matrix set holds each tile matrix whose identifier
\* ends with a colon and an integer under that integer, whatever the number
\* of colons of the identifier
C23_StoredUnderLastInteger ==
    Returned("parse")
    => \A i \in ZoomSuffixed :
         /\ ~Raised(probe.result)
         /\ IntOf(Last(probe.elem.matrices[i].identifier)) \in DOMAIN probe.result.tile_matrices
         /\ Last(probe.result.tile_matrices[IntOf(Last(probe.elem.matrices[i].identifier))].identifier)
              = Last(probe.elem.matrices[i].identifier)

\* C24: the EPSG code parsed from a SupportedCRS string urn:...:EPSG:...:code
\* is the integer that ends the string, with or without a version before it
C24_EpsgEndsTheString ==
    /\ Returned("parse") /\ ~Raised(probe.result)
    /\ probe.elem.supported_crs[1] = "urn"
    /\ \E i \in 1..Len(probe.elem.supported_crs) : probe.elem.supported_crs[i] = "EPSG"
    => probe.result.epsg_code = IntOf(Last(probe.elem.supported_crs))

\* C25: no step of the system takes a transformer whose tile matrix set is
\* loaded to the same transformer with the tile matrix set unloaded
C25_MatrixSetStaysLoaded ==
    [][\A k \in DOMAIN objs \cap DOMAIN objs' :
         objs[k].tile_matrix_set # Null => objs'[k].tile_matrix_set # Null]_vars

\* C26: a tile request that a clear_cache call overtook while it was in
\* flight leaves the tile cache as it is when its upstream fetch returns
C26_OvertakenRequestStoresNothing ==
    [][\A i \in Slots :
         (req[i].stale /\ req[i].pc = "fetch" /\ req'[i].pc = "done")
            => tile_cache' = tile_cache]_vars

\* C27: a tile request that found its key in the tile cache is answered 200
\* with bytes and without an exception
C27_HitAnswersCachedBytes ==
    \A i \in Slots :
        (req[i].kind = "tile" /\ req[i].hit)
           => /\ Answered(req[i])
              /\ req[i].status = 200
              /\ req[i].body # Null
              /\ req[i].error = None

\* the cell is outside the limit table, or its zoom cannot be read
OutsideLimits(cell) ==
    \/ Raised(TileMatrixZoom(cell.tile_matrix))
    \/ ~InWindow(TileMatrixZoom(cell.tile_matrix).zoom, cell)

\* C28: on an endpoint that is not passthrough, a request whose tile
\* is_valid_tile transformed to a cell outside the limit table is answered
\* 400 without a second transform_tile call and without a fetch, and a
\* request is answered the transparent tile only if its two transform_tile
\* calls returned different cells
C28_OutsideLimitsIsBadRequest ==
    \A i \in Slots :
        Transforming(req[i])
           => /\ (req[i].t1 # Null /\ OutsideLimits(req[i].t1))
                   => /\ Answered(req[i])
                      /\ req[i].status = 400
                      /\ req[i].t2 = Null
                      /\ req[i].n_tile = 0
              /\ req[i].body = Transparent
                   => (req[i].t1 # Null /\ req[i].t2 # Null /\ req[i].t1 # req[i].t2)

\* the far tile, whose cell computed with the loaded matrix set lies right of
\* and below the limit table, answered 400
C28_Witness ==
    \E i \in Slots :
        /\ Transforming(req[i]) /\ Answered(req[i])
        /\ req[i].t1 # Null /\ OutsideLimits(req[i].t1)
        /\ objs[req[i].tr].tile_matrix_set # Null
        /\ ~req[i].stale
        /\ req[i].status = 400

\* C29: a tile request has issued at most one GetCapabilities request,
\* whatever the answers were
C29_AtMostOneGetCapabilities ==
    \A i \in Slots : req[i].kind = "tile" => req[i].n_caps <= 1

\* the GetTile parameters an entry was fetched with name the cell of a tile
\* that passes is_valid_tile on the endpoint of its key
FetchedForValidTile(ep, tile, params) ==
    /\ ~OutOfRange(tile)
    /\ params.tilematrixset = SystemOf(ep)
    /\ IF SystemOf(ep) = "WebMercatorQuad"
       THEN /\ params.TileMatrix = <<ToString(tile.z)>>
            /\ params.TileCol = tile.x /\ params.TileRow = tile.y
       ELSE /\ params.TileMatrix = COORDINATE_SYSTEMS[SystemOf(ep)].tile_matrix_prefix
                                     \o <<ToString(ResolvedZoom(ep, tile.z))>>
            /\ InWindow(ResolvedZoom(ep, tile.z),
                        [tile_col |-> params.TileCol, tile_row |-> params.TileRow])

\* C30: every entry of the tile cache is keyed by a configured endpoint and
\* a tile that passes is_valid_tile, and holds bytes that fetch_tile returned
\* for the cell of that tile; no entry holds the transparent tile or an
\* absent result
C30_EntriesAreFetchedTiles ==
    \A j \in 1..Len(tile_cache) :
        /\ tile_cache[j][1][1] \in DOMAIN WMTS_ENDPOINTS
        /\ tile_cache[j][2] # Null
        /\ tile_cache[j][2] # Transparent
        /\ tile_cache[j][2].image \in {"png", "raw"}
        /\ FetchedForValidTile(tile_cache[j][1][1],
                               Tile(tile_cache[j][1][2], tile_cache[j][1][3], tile_cache[j][1][4]),
                               tile_cache[j][2].params)

\* the cache holds a tile of a transformed endpoint while a request whose
\* upstream fetch failed is answered 404
C30_Witness ==
    /\ \E j \in 1..Len(tile_cache) : SystemOf(tile_cache[j][1][1]) = "LKS_LVM"
    /\ \E i \in Slots :
          /\ req[i].kind = "tile" /\ Answered(req[i])
          /\ req[i].tile_answer \in TileFailures /\ req[i].status = 404
====
